---------------------------- MODULE Spec2Model ----------------------------
(***************************************************************************)
(* A model of cryptstr (src/src/cryptstr.hpp, src/main.cpp): the           *)
(* compile-time string ctstr, the transform engine and xor_functor, the    *)
(* obfuscated value cryptstr with crypt()/decrypt(), the volatile memzero  *)
(* routine, and the run-time view strview with its destructor chain.       *)
(*                                                                         *)
(* Characters are bytes 0..255 (CharType = char, as in main.cpp); an int   *)
(* is a 32-bit two's complement word, kept as its unsigned bit pattern.    *)
(* Arrays are sequences: the C++ index i is the TLA+ index i + 1.          *)
(***************************************************************************)
EXTENDS Integers, Sequences, FiniteSets, TLC

VARIABLES
    plain,        \* the source literal handed to crypt(): a char array of size N
    other,        \* a second literal, for the compile-time comparisons
    char_signed,  \* whether plain char is a signed type (implementation-defined)
    crypted,      \* the cryptstr value: [functor, data]
    ct_res,       \* the result of the last compile-time operation
    mz,           \* one call of memzero: its memory, arguments and loop state
    pc,           \* per thread: the position inside decrypt()
    raw,          \* per thread: the transient ctstr `raw` of decrypt()
    view,         \* per thread: the strview object built by the current/last decrypt()
    objs,         \* the string objects (strview or std::basic_string) by identity
    heap          \* the allocator's blocks: state and bytes

vars == <<plain, other, char_signed, crypted, ct_res, mz, pc, raw, view, objs, heap>>

(***************************************************************************)
(* Bounds of the model.                                                    *)
(***************************************************************************)
MaxLen == 2          \* the literals have 1..MaxLen characters
MemSize == 3         \* bytes of memory in the memzero specification
NumThreads == 2      \* threads calling decrypt()
MaxObjs == 3         \* string objects ever constructed in one run
LocalCapacity == 1   \* characters basic_string keeps inside the object (15 in libstdc++)

Chars == {0, 72, 200}                 \* byte values of the literals: NUL, 'H', a byte >= 128
Keys == {0, 55, 256, 4919, 0 - 1}     \* xor_functor<Key>: Key is any int
CharRange == 2 ^ 8                    \* values of a char
HalfBits == 8 * 2                     \* an int is kept as two 16-bit halves [hi, lo]
HalfRange == 2 ^ HalfBits

Plaintexts == UNION {[1..n -> Chars] : n \in 1..MaxLen}
Threads == 1..NumThreads
ObjIds == 1..MaxObjs
Addrs == 1..MaxObjs                   \* heap addresses: one block per object suffices
NullPtr == 0
LocalPtr == MaxObjs + 1               \* "points at this object's own local buffer"

Zeros(n) == [j \in 1..n |-> 0]
AllZero(s) == \A j \in 1..Len(s) : s[j] = 0

(***************************************************************************)
(* Integer arithmetic of the functor: promotion, XOR, conversion to char.  *)
(***************************************************************************)
RECURSIVE XorBits(_, _, _)
XorBits(a, b, w) ==
    IF w = 0 THEN 0
    ELSE (((a % 2) + (b % 2)) % 2) + (2 * XorBits(a \div 2, b \div 2, w - 1))

\* a ^ b on ints
IntXor(x, y) == [hi |-> XorBits(x.hi, y.hi, HalfBits), lo |-> XorBits(x.lo, y.lo, HalfBits)]

\* a + b on ints, wrapping
IntAdd(x, y) ==
    [hi |-> (x.hi + y.hi + ((x.lo + y.lo) \div HalfRange)) % HalfRange,
     lo |-> (x.lo + y.lo) % HalfRange]

\* integral promotion of a char to int (sign-extending when char is signed)
Promote(c) ==
    IF char_signed /\ c >= CharRange \div 2
    THEN [hi |-> HalfRange - 1, lo |-> (HalfRange - CharRange) + c]
    ELSE [hi |-> 0, lo |-> c]

\* the int template argument Key as a 32-bit two's complement pattern
IntPattern(k) == [hi |-> (k \div HalfRange) % HalfRange, lo |-> k % HalfRange]

\* conversion of the int result to CharType on return: the low byte
ToChar(x) == x.lo % CharRange

\* a faulty variant of xor_functor: adds the key instead of XOR-ing it (not self-inverse)
add_functor(Key, str, len, index) ==
    ToChar(IntAdd(Promote(str[index + 1]), IntPattern(Key)))

\* xor_functor<Key>::operator(): return str[index] ^ Key;
xor_functor(Key, str, len, index) ==
    ToChar(IntXor(Promote(str[index + 1]), IntPattern(Key)))

(***************************************************************************)
(* ctstr<CharType, N>: [str, len].                                         *)
(***************************************************************************)
\* the copy loop of the constructors: for (i = 0; N > i; ++i) str[i] = _str[i];
RECURSIVE ctstr_copy(_, _, _)
ctstr_copy(str, _str, i) ==
    IF Len(str) > i THEN ctstr_copy([str EXCEPT ![i + 1] = _str[i + 1]], _str, i + 1)
    ELSE str

\* ctstr(const char_type (&_str)[Y]) : str{}, len(Y)
ctstr(_str) == [str |-> ctstr_copy(Zeros(Len(_str)), _str, 0), len |-> Len(_str)]

\* ctstr(const ctstr<char_type, Y>& _other) : str{}, len(Y)
ctstr_from(_other) ==
    [str |-> ctstr_copy(Zeros(Len(_other.str)), _other.str, 0), len |-> Len(_other.str)]

make_ctstr(_str) == ctstr(_str)

\* a read of a char array; an index past the end reads an indeterminate value
\* (never done by the code as written: operator[] guards it)
array_read(a, i) == IF i < Len(a) THEN a[i + 1] ELSE 0

\* a faulty variant of operator[]: the off-by-one guard _index <= len
ctstr_index_le(s, _index) ==
    IF _index <= s.len
    THEN [tag |-> "char", value |-> array_read(s.str, _index), reads |-> {_index}]
    ELSE [tag |-> "out_of_range", value |-> 0, reads |-> {}]

\* operator[]: (_index < len) ? str[_index] : throw std::out_of_range(...)
ctstr_index(s, _index) ==
    IF _index < s.len
    THEN [tag |-> "char", value |-> array_read(s.str, _index), reads |-> {_index}]
    ELSE [tag |-> "out_of_range", value |-> 0, reads |-> {}]

\* size()
ctstr_size(s) == s.len

\* a faulty variant of equal: compares the first character only
equal_first(str, _str, i) == array_read(str, 0) = array_read(_str, 0)

\* equal(): for (i = 0; N > i; ++i) if (str[i] != _str[i]) return false; return true;
RECURSIVE equal(_, _, _)
equal(str, _str, i) ==
    IF Len(str) > i
    THEN IF array_read(str, i) # array_read(_str, i) THEN FALSE ELSE equal(str, _str, i + 1)
    ELSE TRUE

\* operator==(const char (&_str)[Y]) and operator==(const ctstr<char_type, Y>)
ctstr_eq_lit(s, _str) == IF Len(_str) # Len(s.str) THEN FALSE ELSE equal(s.str, _str, 0)
ctstr_eq(s, _other) == IF Len(_other.str) # Len(s.str) THEN FALSE ELSE equal(s.str, _other.str, 0)

\* operator!=(const char (&_str)[Y]) and operator!=(const ctstr<char_type, Y>)
ctstr_ne_lit(s, _str) == IF Len(_str) # Len(s.str) THEN TRUE ELSE ~equal(s.str, _str, 0)
ctstr_ne(s, _other) == IF Len(_other.str) # Len(s.str) THEN TRUE ELSE ~equal(s.str, _other.str, 0)

(***************************************************************************)
(* The transform engine and the obfuscated value.                          *)
(***************************************************************************)
\* the functor object applied to (str, len, index)
functor_call(_functor, str, len, index) == xor_functor(_functor.Key, str, len, index)

\* the loop of transform: for (i = 0; N > i; ++i) values[i] = _functor(src, N, i);
RECURSIVE transform_loop(_, _, _, _)
transform_loop(values, src, _functor, i) ==
    IF Len(src) > i
    THEN transform_loop([values EXCEPT ![i + 1] = functor_call(_functor, src, Len(src), i)],
                        src, _functor, i + 1)
    ELSE values

\* transform(const ctstr&, Functor) and transform(const CharType (&)[N], Functor)
transform(_other, _functor) ==
    ctstr(transform_loop(Zeros(Len(_other.str)), _other.str, _functor, 0))
transform_lit(_str, _functor) ==
    ctstr(transform_loop(Zeros(Len(_str)), _str, _functor, 0))

\* cryptstr(functor_type _functor, const ctstr& _other) : data(_other), functor(_functor)
cryptstr(_functor, _other) == [functor |-> _functor, data |-> ctstr_from(_other)]

\* a faulty variant of crypt: stores the source without transforming it
crypt_plain(_functor, _str) == cryptstr(_functor, ctstr(_str))

\* crypt(Functor _functor, const CharType (&_str)[N])
crypt(_functor, _str) == cryptstr(_functor, transform_lit(_str, _functor))

\* crypt(Functor _functor, const ctstr<CharType, N>& _other)
crypt_ct(_functor, _other) == cryptstr(_functor, transform(_other, _functor))

\* cryptstr::size() and cryptstr::ct()
cryptstr_size(c) == Len(c.data.str)
cryptstr_ct(c) == c.data

(***************************************************************************)
(* memzero(ptr, num): while (num-- > 0) { *char_ptr = 0; ++char_ptr; }     *)
(* Memory is a sequence of bytes; ptr is the index of the first byte.      *)
(***************************************************************************)
\* a faulty variant of the store: writes one byte further on
memzero_store_next(mem, char_ptr) ==
    IF char_ptr + 1 \in 1..Len(mem) THEN [mem EXCEPT ![char_ptr + 1] = 0] ELSE mem

\* *char_ptr = 0;
memzero_store(mem, char_ptr) == [mem EXCEPT ![char_ptr] = 0]

\* the loop condition, num-- > 0
memzero_cond(num) == num > 0

RECURSIVE memzero_loop(_, _, _)
memzero_loop(mem, char_ptr, num) ==
    IF memzero_cond(num) THEN memzero_loop(memzero_store(mem, char_ptr), char_ptr + 1, num - 1)
    ELSE mem

memzero(mem, ptr, num) == memzero_loop(mem, ptr, num)

(***************************************************************************)
(* decrypt() in pieces; the run-time actions below take them one by one.   *)
(***************************************************************************)
\* a faulty variant of the first statement: transforms the stored data in place
decrypt_transform_inplace(c) ==
    [raw |-> transform(c.data, c.functor),
     self |-> [c EXCEPT !.data = transform(c.data, c.functor)]]

\* auto raw = transform(data, functor); in a const member: *this is left as it is
decrypt_transform(c) == [raw |-> transform(c.data, c.functor), self |-> c]

\* strview(const ctstr& _str) : std::basic_string(_str.get(), _str.size()):
\* the characters the string copies out of the ctstr
strview_chars(_str) == [size |-> ctstr_size(_str), chars |-> SubSeq(_str.str, 1, ctstr_size(_str))]

\* a faulty variant of the wipe: clears one character less
decrypt_memzero_short(r) == [r EXCEPT !.str = memzero(r.str, 1, Len(r.str) - 1)]

\* memzero((void*)raw.get(), sizeof(CharType) * N);
decrypt_memzero(r) == [r EXCEPT !.str = memzero(r.str, 1, Len(r.str))]

\* decrypt() as a function of the cryptstr: the view's characters, and the
\* transient as it is left behind
decrypt(c) ==
    LET r == decrypt_transform(c).raw
    IN  [view |-> strview_chars(r), raw |-> decrypt_memzero(r)]

(***************************************************************************)
(* Initial values of the parts a specification does not use.               *)
(***************************************************************************)
NoCt == [str |-> <<>>, len |-> 0]
NoRes == [op |-> "none"]
NoMz == [pc |-> "off"]
NoObj == [st |-> "unborn", kind |-> "strview", ptr |-> NullPtr, size |-> 0,
          local |-> Zeros(LocalCapacity + 1), was |-> NullPtr, held |-> FALSE,
          modified |-> FALSE]
NoBlock == [st |-> "free", bytes |-> <<>>]

RuntimeIdle ==
    /\ pc = [t \in Threads |-> "idle"]
    /\ raw = [t \in Threads |-> NoCt]
    /\ view = [t \in Threads |-> 0]
    /\ objs = [o \in ObjIds |-> NoObj]
    /\ heap = [a \in Addrs |-> NoBlock]

runtime_vars == <<pc, raw, view, objs, heap>>

(***************************************************************************)
(* SpecCt: the compile-time operations, applied to every literal.          *)
(***************************************************************************)
InitCt ==
    /\ plain \in Plaintexts
    /\ other \in Plaintexts
    /\ char_signed \in BOOLEAN
    /\ \E k \in Keys : crypted = [functor |-> [Key |-> k], data |-> NoCt]
    /\ ct_res = NoRes
    /\ mz = NoMz
    /\ RuntimeIdle

Built == crypted.data.len > 0

\* constexpr auto crypted1 = cs::crypt(functor, "..."), from a literal or a ctstr
CtCrypt ==
    /\ ~Built
    /\ \/ crypted' = crypt(crypted.functor, plain)
       \/ crypted' = crypt_ct(crypted.functor, make_ctstr(plain))
    /\ ct_res' = [op |-> "crypt"]
    /\ UNCHANGED <<plain, other, char_signed, mz, runtime_vars>>

\* crypted1.decrypt(), as a whole
CtDecrypt ==
    /\ Built
    /\ ct_res' = [op |-> "decrypt", r |-> decrypt(crypted)]
    /\ UNCHANGED <<plain, other, char_signed, crypted, mz, runtime_vars>>

\* plain1[i]
CtIndex ==
    /\ \E i \in 0..(MaxLen + 1) :
          ct_res' = [op |-> "index", i |-> i, r |-> ctstr_index(make_ctstr(plain), i)]
    /\ UNCHANGED <<plain, other, char_signed, crypted, mz, runtime_vars>>

\* plain1 == plain2, plain1 == "..."
CtEq ==
    /\ \/ ct_res' = [op |-> "eq", r |-> ctstr_eq(make_ctstr(plain), make_ctstr(other))]
       \/ ct_res' = [op |-> "eq", r |-> ctstr_eq_lit(make_ctstr(plain), other)]
    /\ UNCHANGED <<plain, other, char_signed, crypted, mz, runtime_vars>>

\* plain1 != plain2, plain1 != "..."
CtNe ==
    /\ \/ ct_res' = [op |-> "ne", r |-> ctstr_ne(make_ctstr(plain), make_ctstr(other))]
       \/ ct_res' = [op |-> "ne", r |-> ctstr_ne_lit(make_ctstr(plain), other)]
    /\ UNCHANGED <<plain, other, char_signed, crypted, mz, runtime_vars>>

NextCt == CtCrypt \/ CtDecrypt \/ CtIndex \/ CtEq \/ CtNe

SpecCt == InitCt /\ [][NextCt]_vars

(***************************************************************************)
(* SpecMemzero: one call memzero(ptr, num) on a memory of MemSize bytes,   *)
(* one loop iteration per step.  ptr .. ptr + num - 1 lies inside the      *)
(* memory (the caller's obligation).                                       *)
(***************************************************************************)
MzBytes == {0, 7}

InitMemzero ==
    /\ plain = <<0>> /\ other = <<0>> /\ char_signed = FALSE
    /\ crypted = [functor |-> [Key |-> 0], data |-> NoCt]
    /\ ct_res = NoRes
    /\ RuntimeIdle
    /\ \E m \in [1..MemSize -> MzBytes], p \in 1..(MemSize + 1) :
          \E n \in 0..((MemSize + 1) - p) :
             mz = [pc |-> "loop", mem0 |-> m, ptr |-> p, num0 |-> n,
                   mem |-> m, char_ptr |-> p, num |-> n, writes |-> <<>>]

\* num-- > 0 holds: *char_ptr = 0; ++char_ptr;
MzWrite ==
    /\ mz.pc = "loop"
    /\ memzero_cond(mz.num)
    /\ mz' = [mz EXCEPT !.mem = memzero_store(mz.mem, mz.char_ptr),
                        !.writes = Append(mz.writes, mz.char_ptr),
                        !.char_ptr = mz.char_ptr + 1,
                        !.num = mz.num - 1]
    /\ UNCHANGED <<plain, other, char_signed, crypted, ct_res, runtime_vars>>

\* num-- > 0 fails: the loop and the routine end
MzReturn ==
    /\ mz.pc = "loop"
    /\ ~memzero_cond(mz.num)
    /\ mz' = [mz EXCEPT !.pc = "done"]
    /\ UNCHANGED <<plain, other, char_signed, crypted, ct_res, runtime_vars>>

NextMemzero == MzWrite \/ MzReturn

\* the routine is straight-line code on its own thread: it keeps running
SpecMemzero == InitMemzero /\ [][NextMemzero]_vars /\ WF_vars(NextMemzero)

(***************************************************************************)
(* std::basic_string as strview uses it.  A string object is               *)
(* [ptr, size, local]: ptr is LocalPtr when the characters live in the     *)
(* object's own buffer `local` (at most LocalCapacity of them, plus the    *)
(* terminator), or the address of a heap block.  The operators below work  *)
(* on a pair s = [o |-> the object, h |-> the heap].                       *)
(***************************************************************************)
IsBlock(p) == p \in Addrs

\* c_str(): the buffer the string points at
c_str(o, h) == IF o.ptr = LocalPtr THEN o.local
               ELSE IF IsBlock(o.ptr) THEN h[o.ptr].bytes ELSE <<>>

\* the characters a reader of the string sees
Content(o, h) == SubSeq(c_str(o, h), 1, o.size)

\* the blocks allocate() may hand out: any block not in use
FreeAddrs(h) == {a \in Addrs : h[a].st # "live"}

\* allocate(): a block not in use.  Blocks differ in their address only, so
\* the one of lowest address stands for any of them; there is always one,
\* as there are as many blocks as objects
allocate(h) == CHOOSE a \in FreeAddrs(h) : \A b \in FreeAddrs(h) : a <= b

Pad(chars) == chars \o Zeros((LocalCapacity + 1) - Len(chars))

\* basic_string(const CharT* s, size_type n), into the block a when the
\* characters do not fit the local buffer
basic_string(o, h, chars, a) ==
    IF Len(chars) <= LocalCapacity
    THEN [o |-> [o EXCEPT !.st = "live", !.ptr = LocalPtr, !.size = Len(chars),
                          !.local = Pad(chars)],
          h |-> h]
    ELSE [o |-> [o EXCEPT !.st = "live", !.ptr = a, !.size = Len(chars)],
          h |-> [h EXCEPT ![a] = [st |-> "live", bytes |-> chars \o <<0>>]]]

NeedsBlock(chars) == Len(chars) > LocalCapacity

\* basic_string(basic_string&&): a local string is copied, a heap block is
\* taken over; the source is left empty, pointing at its local buffer
basic_string_move(dst, src) ==
    [dst |-> IF src.ptr = LocalPtr
             THEN [dst EXCEPT !.st = "live", !.ptr = LocalPtr, !.size = src.size,
                              !.local = src.local]
             ELSE [dst EXCEPT !.st = "live", !.ptr = src.ptr, !.size = src.size],
     src |-> [src EXCEPT !.ptr = LocalPtr, !.size = 0, !.local[1] = 0]]

\* basic_string::clear(): the length becomes 0 and data()[0] the terminator
basic_string_clear(s) ==
    IF s.o.ptr = LocalPtr
    THEN [o |-> [s.o EXCEPT !.size = 0, !.local[1] = 0], h |-> s.h]
    ELSE [o |-> [s.o EXCEPT !.size = 0], h |-> [s.h EXCEPT ![s.o.ptr].bytes[1] = 0]]

\* ~basic_string(): a block that is not the local buffer goes back to the
\* allocator, its bytes as they are; deallocating a null pointer does nothing
basic_string_dtor(s) ==
    IF s.o.ptr # LocalPtr /\ IsBlock(s.o.ptr)
    THEN [o |-> s.o, h |-> [s.h EXCEPT ![s.o.ptr].st = "released"]]
    ELSE s

(***************************************************************************)
(* strview and zero<strview>.                                              *)
(***************************************************************************)
\* ~strview() { memzero((void*)this->c_str(), this->size() * sizeof(CharType)); }
strview_dtor_body(s) ==
    IF s.o.ptr = LocalPtr
    THEN [o |-> [s.o EXCEPT !.local = memzero(s.o.local, 1, s.o.size)], h |-> s.h]
    ELSE IF IsBlock(s.o.ptr)
    THEN [o |-> s.o,
          h |-> [s.h EXCEPT ![s.o.ptr].bytes = memzero(s.h[s.o.ptr].bytes, 1, s.o.size)]]
    ELSE s

\* ~zero() { memzero(static_cast<void*>(this), sizeof(parent_type)); }: every
\* byte of the strview object, the string's pointer, length and local buffer
zero_dtor(s) ==
    [o |-> [s.o EXCEPT !.ptr = NullPtr, !.size = 0,
                       !.local = memzero(s.o.local, 1, Len(s.o.local))],
     h |-> s.h]

\* the destruction of a strview: the destructor body, then the bases in
\* reverse order of declaration: zero<strview>, then std::basic_string.
\* ~basic_string() so runs on an object whose bytes ~zero() has just
\* cleared, which is outside the library's contract; what it does with it
\* is what it does with a null data pointer and a zero length: libstdc++
\* and MSVC deallocate nothing, libc++ sees an empty short string.  No
\* implementation can still find the block, so nothing is released.
strview_destroy(s) ==
    LET done == basic_string_dtor(zero_dtor(strview_dtor_body(s)))
    IN  [o |-> [done.o EXCEPT !.st = "destroyed", !.was = s.o.ptr], h |-> done.h]

\* the destruction of a plain std::basic_string
string_destroy(s) ==
    LET done == basic_string_dtor(s)
    IN  [o |-> [done.o EXCEPT !.st = "destroyed", !.was = s.o.ptr], h |-> done.h]

(***************************************************************************)
(* The run-time actions.                                                   *)
(***************************************************************************)
Unborn == {o \in ObjIds : objs[o].st = "unborn"}
\* objects are numbered in the order of their construction
NextObj == CHOOSE o \in Unborn : \A q \in Unborn : o <= q

HeldViews == {o \in ObjIds : objs[o].st = "live" /\ objs[o].kind = "strview" /\ objs[o].held}
HeldStrings == {o \in ObjIds : objs[o].st = "live" /\ objs[o].kind = "string" /\ objs[o].held}

const_vars == <<plain, other, char_signed, ct_res, mz>>

\* auto raw = transform(data, functor);
DecryptTransform(t) ==
    /\ pc[t] = "idle"
    /\ Unborn # {}
    /\ raw' = [raw EXCEPT ![t] = decrypt_transform(crypted).raw]
    /\ crypted' = decrypt_transform(crypted).self
    /\ view' = [view EXCEPT ![t] = 0]
    /\ pc' = [pc EXCEPT ![t] = "raw"]
    /\ UNCHANGED <<objs, heap, const_vars>>

\* strview<CharType> view(raw);
DecryptConstruct(t) ==
    /\ pc[t] = "raw"
    /\ Unborn # {}
    /\ LET chars == strview_chars(raw[t]).chars
           o == NextObj
           s == basic_string([NoObj EXCEPT !.kind = "strview"], heap, chars, allocate(heap))
       IN  /\ objs' = [objs EXCEPT ![o] = s.o]
           /\ heap' = s.h
           /\ view' = [view EXCEPT ![t] = o]
    /\ pc' = [pc EXCEPT ![t] = "view"]
    /\ UNCHANGED <<raw, crypted, const_vars>>

\* memzero((void*)const_cast<CharType*>(raw.get()), sizeof(CharType) * N);
DecryptWipe(t) ==
    /\ pc[t] = "view"
    /\ raw' = [raw EXCEPT ![t] = decrypt_memzero(raw[t])]
    /\ pc' = [pc EXCEPT ![t] = "wiped"]
    /\ UNCHANGED <<view, objs, heap, crypted, const_vars>>

\* return view; with the copy elided: the local is the caller's object
DecryptReturnElided(t) ==
    /\ pc[t] = "wiped"
    /\ objs' = [objs EXCEPT ![view[t]].held = TRUE]
    /\ pc' = [pc EXCEPT ![t] = "idle"]
    /\ UNCHANGED <<raw, view, heap, crypted, const_vars>>

\* return view; without elision: the caller's object is move-constructed
\* from the local, and the local is destroyed
DecryptReturnMoved(t) ==
    /\ pc[t] = "wiped"
    /\ Unborn # {}
    /\ LET o == NextObj
           m == basic_string_move([NoObj EXCEPT !.kind = "strview", !.held = TRUE],
                                  objs[view[t]])
           d == strview_destroy([o |-> m.src, h |-> heap])
       IN  /\ objs' = [objs EXCEPT ![o] = m.dst, ![view[t]] = d.o]
           /\ heap' = d.h
           /\ view' = [view EXCEPT ![t] = o]
    /\ pc' = [pc EXCEPT ![t] = "idle"]
    /\ UNCHANGED <<raw, crypted, const_vars>>

\* a view held by a caller goes out of scope
Destroy(o) ==
    /\ o \in HeldViews
    /\ LET d == strview_destroy([o |-> objs[o], h |-> heap])
       IN  /\ objs' = [objs EXCEPT ![o] = d.o]
           /\ heap' = d.h
    /\ UNCHANGED <<pc, raw, view, crypted, const_vars>>

\* view.clear(), one of the members strview inherits publicly
Clear(o) ==
    /\ o \in HeldViews
    /\ ~objs[o].modified
    /\ LET c == basic_string_clear([o |-> objs[o], h |-> heap])
       IN  /\ objs' = [objs EXCEPT ![o] = [c.o EXCEPT !.modified = TRUE]]
           /\ heap' = c.h
    /\ UNCHANGED <<pc, raw, view, crypted, const_vars>>

\* strview w(std::move(v)) in a caller
MoveConstruct(o) ==
    /\ o \in HeldViews
    /\ Unborn # {}
    /\ LET m == basic_string_move([NoObj EXCEPT !.kind = "strview", !.held = TRUE,
                                                !.modified = objs[o].modified],
                                  objs[o])
       IN  objs' = [objs EXCEPT ![NextObj] = m.dst, ![o] = m.src]
    /\ UNCHANGED <<pc, raw, view, heap, crypted, const_vars>>

\* std::string s(v): v is a std::basic_string by public inheritance, so the
\* string's own constructors accept it; the deleted conversion operator to a
\* base class is never considered
CopyToString(o) ==
    /\ o \in HeldViews
    /\ Unborn # {}
    /\ LET chars == Content(objs[o], heap)
           s == basic_string([NoObj EXCEPT !.kind = "string", !.held = TRUE],
                             heap, chars, allocate(heap))
       IN  /\ objs' = [objs EXCEPT ![NextObj] = s.o]
           /\ heap' = s.h
    /\ UNCHANGED <<pc, raw, view, crypted, const_vars>>

\* such a std::string goes out of scope
DestroyString(o) ==
    /\ o \in HeldStrings
    /\ LET d == string_destroy([o |-> objs[o], h |-> heap])
       IN  /\ objs' = [objs EXCEPT ![o] = d.o]
           /\ heap' = d.h
    /\ UNCHANGED <<pc, raw, view, crypted, const_vars>>

\* the literals and the key of the run-time specifications: no NUL inside
\* (so that a wiped byte differs from every plaintext byte), the key of main.cpp
RtPlaintexts == {p \in Plaintexts : \A i \in 1..Len(p) : p[i] # 0}
RtKeys == {4919}

\* the program after constexpr auto crypted1 = cs::crypt(functor, "...")
Init ==
    /\ plain \in RtPlaintexts
    /\ other = plain
    /\ char_signed \in BOOLEAN
    /\ \E k \in RtKeys : crypted = crypt([Key |-> k], plain)
    /\ ct_res = NoRes
    /\ mz = NoMz
    /\ RuntimeIdle

NextDecode ==
    \/ \E t \in Threads : DecryptTransform(t)
    \/ \E t \in Threads : DecryptConstruct(t)
    \/ \E t \in Threads : DecryptWipe(t)
    \/ \E t \in Threads : DecryptReturnElided(t)
    \/ \E t \in Threads : DecryptReturnMoved(t)
    \/ \E o \in ObjIds : Destroy(o)

\* decrypt() calls and view destructions only
SpecDecode == Init /\ [][NextDecode]_vars

Next ==
    \/ NextDecode
    \/ \E o \in ObjIds : Clear(o)
    \/ \E o \in ObjIds : MoveConstruct(o)
    \/ \E o \in ObjIds : CopyToString(o)
    \/ \E o \in ObjIds : DestroyString(o)

\* everything a caller can do with the views it holds
Spec == Init /\ [][Next]_vars

(***************************************************************************)
(* Claims settled on the compile-time operations (SpecCt).                 *)
(***************************************************************************)
KeyLowByte == crypted.functor.Key % CharRange

C2_NoPlaintextAtRest ==
    (Built /\ KeyLowByte # 0) =>
        /\ cryptstr_size(crypted) = Len(plain)
        /\ \A i \in 0..(Len(plain) - 1) :
              /\ cryptstr_ct(crypted).str[i + 1] # plain[i + 1]
              /\ cryptstr_ct(crypted).str[i + 1] = XorBits(plain[i + 1], KeyLowByte, 8)
        /\ cryptstr_ct(crypted).str # plain

\* C2 witness: "H\0" encoded with the key 0x1337 of main.cpp is stored as
\* 0x7f 0x37.
C2_Witness ==
    /\ Built /\ ct_res.op = "crypt"
    /\ crypted.functor.Key = 4919 /\ plain = <<72, 0>>
    /\ crypted.data.str = <<127, 55>>

\* C4 (bounds checking): operator[](i) on a ctstr of length N returns str[i]
\* for i < N; for i >= N it returns no character and signals out_of_range;
\* no index outside [0, N) is read.
C4_BoundsChecked ==
    ct_res.op = "index" =>
        IF ct_res.i < Len(plain)
        THEN /\ ct_res.r.tag = "char"
             /\ ct_res.r.value = plain[ct_res.i + 1]
             /\ ct_res.r.reads = {ct_res.i}
        ELSE /\ ct_res.r.tag = "out_of_range"
             /\ ct_res.r.reads = {}

\* C4 witness: the index N itself, one past the last character, was refused.
C4_Witness ==
    /\ ct_res.op = "index"
    /\ ct_res.i = Len(plain) /\ Len(plain) = 2
    /\ ct_res.r.tag = "out_of_range"

SameChars(a, b) == Len(a) = Len(b) /\ \A i \in 0..(Len(a) - 1) : a[i + 1] = b[i + 1]

\* C5 (compile-time equality): a == b is true exactly when the lengths are
\* equal and a[i] = b[i] for every i in [0, N); a != b is true exactly when
\* a == b is false, also when the lengths differ; the same for a literal b.
C5_Equality ==
    /\ ct_res.op = "eq" => (ct_res.r <=> SameChars(plain, other))
    /\ ct_res.op = "ne" => (ct_res.r <=> ~SameChars(plain, other))

\* C5 witness: two literals of equal length that differ in their last
\* character only were compared with != and found unequal.
C5_Witness ==
    /\ ct_res.op = "ne" /\ ct_res.r
    /\ Len(plain) = 2 /\ Len(other) = 2
    /\ plain[1] = other[1] /\ plain[2] # other[2]

(***************************************************************************)
(* Claims settled on memzero (SpecMemzero).                                *)
(***************************************************************************)
MzDone ==
    /\ mz.pc = "done"
    /\ Len(mz.writes) = mz.num0
    /\ \A j \in 1..mz.num0 : mz.writes[j] = mz.ptr + (j - 1)
    /\ \A x \in 1..MemSize :
          mz.mem[x] = IF mz.ptr <= x /\ x < mz.ptr + mz.num0 THEN 0 ELSE mz.mem0[x]

\* C9 (secure erasure primitive): memzero(ptr, num) terminates for every num,
\* zero included, after exactly num byte writes; the writes go to ptr,
\* ptr + 1, ..., ptr + num - 1 in this order and store zero; every byte
\* outside [ptr, ptr + num) keeps its value, also while the loop runs.
C9_Memzero ==
    /\ <>(mz.pc = "done")
    /\ [](mz.pc = "done" => MzDone)
    /\ [](\A x \in 1..MemSize :
             (x < mz.ptr \/ x >= mz.ptr + mz.num0) => mz.mem[x] = mz.mem0[x])

\* C9 witness: a call that cleared two non-zero bytes in the middle of the
\* memory has returned, the bytes before and after them still non-zero.
C9_Witness ==
    /\ mz.pc = "done"
    /\ mz.ptr = 2 /\ mz.num0 = MemSize - 2 /\ mz.num0 > 0
    /\ \A x \in 1..MemSize : mz.mem0[x] = 7
    /\ mz.mem[1] = 7 /\ mz.mem[2] = 0 /\ mz.mem[MemSize] = 7

(***************************************************************************)
(* Claims settled on decrypt() calls and view destructions (SpecDecode).   *)
(***************************************************************************)
Views == {o \in ObjIds : objs[o].kind = "strview"}
LiveViews == {o \in Views : objs[o].st = "live"}
DeadViews == {o \in Views : objs[o].st = "destroyed"}
Reads(o) == Content(objs[o], heap)

\* what holds at each position inside decrypt()
C7_Steps ==
    \A t \in Threads :
       /\ pc[t] = "raw" => (raw[t].str = plain /\ view[t] = 0)
       /\ pc[t] = "view" =>
             (raw[t].str = plain /\ view[t] \in LiveViews /\ Reads(view[t]) = plain)
       /\ pc[t] = "wiped" =>
             /\ Len(raw[t].str) = Len(plain) /\ AllZero(raw[t].str)
             /\ view[t] \in LiveViews /\ Reads(view[t]) = plain

\* the positions follow one another in the order of the statements
C7_Order ==
    \A t \in Threads :
       pc'[t] # pc[t] =>
          <<pc[t], pc'[t]>> \in {<<"idle", "raw">>, <<"raw", "view">>,
                                 <<"view", "wiped">>, <<"wiped", "idle">>}

\* the state decrypt() returns in
C7_AtReturn ==
    \A t \in Threads :
       (pc[t] = "wiped" /\ pc'[t] = "idle") =>
          /\ Len(raw'[t].str) = Len(plain) /\ AllZero(raw'[t].str)
          /\ objs'[view'[t]].st = "live" /\ objs'[view'[t]].held
          /\ objs'[view'[t]].size = Len(plain)
          /\ Content(objs'[view'[t]], heap') = plain

\* C7 (decode ordering): decrypt() builds the transient plaintext ctstr by
\* re-applying the stored functor to the stored data, then constructs the
\* view from it, then zeroes all N characters of the transient, then
\* returns; when it returns the transient is all zero and the returned view
\* holds the whole plaintext.
C7_DecodeOrdering == [](C7_Steps) /\ [][C7_Order /\ C7_AtReturn]_vars

\* C7 witness: a decrypt() of a two-character literal has returned; its
\* transient is zero and the caller's view, on the heap, reads the plaintext.
C7_Witness ==
    \E t \in Threads :
       /\ pc[t] = "idle" /\ view[t] # 0
       /\ Len(plain) = 2 /\ Len(raw[t].str) = 2 /\ AllZero(raw[t].str)
       /\ view[t] \in HeldViews /\ IsBlock(objs[view[t]].ptr)
       /\ Reads(view[t]) = plain

\* C8 (independent decodes): under any interleaving of decrypt() calls and
\* view destructions, by one or several threads, no two live views own the
\* same block (a view's local buffer is part of the view itself), every
\* live view reads the whole plaintext, and the cryptstr still holds the
\* functor and the obfuscated characters it was built with.
C8_IndependentDecodes ==
    /\ \A o \in LiveViews :
          /\ objs[o].ptr = LocalPtr \/ IsBlock(objs[o].ptr)
          /\ IsBlock(objs[o].ptr) => heap[objs[o].ptr].st = "live"
          /\ objs[o].size = Len(plain)
          /\ Reads(o) = plain
    /\ \A o1 \in LiveViews : \A o2 \in LiveViews :
          (o1 # o2 /\ IsBlock(objs[o1].ptr)) => objs[o1].ptr # objs[o2].ptr
    /\ crypted.functor.Key \in RtKeys
    /\ crypted = crypt(crypted.functor, plain)

\* C8 witness: one view has been destroyed, a second one is held and reads
\* the plaintext from its own block, and a third decrypt() is under way.
C8_Witness ==
    /\ Len(plain) = 2
    /\ \E o1 \in DeadViews : IsBlock(objs[o1].was)
    /\ \E o2 \in HeldViews : IsBlock(objs[o2].ptr) /\ Reads(o2) = plain
    /\ \E t \in Threads : pc[t] = "wiped" /\ IsBlock(objs[view[t]].ptr)

(***************************************************************************)
(* Claims the code does not keep (Spec).                                   *)
(***************************************************************************)
\* C3 (erasure), as claimed: after a strview is destroyed every byte of the
\* buffer it owned is zero, however the view was used before (read, moved
\* from, moved into, modified through the string members it exposes).
C3_Erasure ==
    \A o \in DeadViews :
       /\ AllZero(objs[o].local)
       /\ IsBlock(objs[o].was) => AllZero(heap[objs[o].was].bytes)

\* C6 (restricted capability set), as claimed: a strview is only ever
\* created from a ctstr or by move construction and cannot be converted to
\* a general string, so no container other than a strview ever holds the
\* plaintext.
C6_NoOtherContainer ==
    \A o \in ObjIds : objs[o].st # "unborn" => objs[o].kind = "strview"

\* C10 (destruction releases the buffer), as claimed: after the destructor
\* body, ~zero and ~basic_string have run, the heap block the view owned has
\* been released, so no block stays allocated once every view is destroyed.
C10_BufferReleased ==
    \A o \in DeadViews : IsBlock(objs[o].was) => heap[objs[o].was].st = "released"

=============================================================================
